---- MODULE Spec2Model ----
(***************************************************************************)
(* Model of lib/utils/azureEnvironmentManager.js: the callback-chained     *)
(* stages that provision and tear down Azure web app environments.         *)
(*                                                                         *)
(* One invocation of one exported function is in flight at a time.  An     *)
(* invocation is a sequence of steps: the synchronous part of the call,    *)
(* then the settlement of the external promise (or node-style callback),   *)
(* then, for create and delete, the completion of the collaborator that    *)
(* was handed the caller's callback.                                       *)
(*                                                                         *)
(* JavaScript strings are sequences of tokens.  The parts that             *)
(* toLowerCase() and === look into (prefix, issue key, "-qa") are kept     *)
(* character by character; fixed literals are single tokens.               *)
(***************************************************************************)
EXTENDS Integers, Sequences, FiniteSets, TLC

VARIABLES
  config,     \* require("./config")("azure")[bamboo_azure_config_code]
  template,   \* require cache entry of templates/azure-specs/webapp.json
  stage,      \* the exported function whose invocation is in flight
  pc,         \* "idle" | "awaiting" | "cloning" | "schema" | "writing" | "done"
  args,       \* the arguments of the invocation
  ext,        \* the external call's promise: "none" | "pending" | "resolved" | "rejected"
  extVal,     \* the value the external call settled with
  calls,      \* external calls made by the invocation, in order
  cb,         \* invocations of the caller's callback, in order (argument tuples)
  thrown,     \* an exception escaped a handler of the invocation
  clone,      \* the git clone: "none" | "running" | "ok" | "failed"
  ret,        \* return value of the synchronous getters
  file        \* what the invocation wrote to Temp/azureWebappVariables.txt (lines)

vars == <<config, template, stage, pc, args, ext, extVal, calls, cb, thrown, clone, ret, file>>

----------------------------------------------------------------------------
(* Bounds of the model *)

\* Math.random() is sampled as r / RandSteps for r in 0 .. RandSteps - 1
RandSteps == 8
\* longest subscription list and resource-group list the listing calls return
MaxList == 2

(* Program constants *)
min == 2
max == 9

----------------------------------------------------------------------------
(* JavaScript values that may be null/undefined, empty, or present *)

Null == [t |-> "null"]
Str(s) == [t |-> "str", v |-> s]
Arr(a) == [t |-> "arr", v |-> a]
EmptyObj == [t |-> "obj", v |-> <<>>]
Err(m) == [t |-> "err", v |-> <<m>>]

\* R.isNil
isNil(x) == x.t = "null"
\* R.isEmpty: "", [] and {} are empty; null, undefined and Error objects are not
isEmpty(x) == x.t \in {"str", "arr", "obj"} /\ x.v = <<>>

\* x || "" for a string-or-undefined x
OrEmptyString(x) == IF x.t = "null" \/ (x.t = "str" /\ x.v = <<>>) THEN Str(<<>>) ELSE x

\* string concatenation of an undefined-or-string value: "" + x
ToStr(x) == IF x.t = "null" THEN <<"undefined">> ELSE x.v

\* String.prototype.toLowerCase, one character (a multi-character token is a
\* lower-case literal and maps to itself)
LowerChar(c) ==
  CASE c = "A" -> "a" [] c = "B" -> "b" [] c = "C" -> "c" [] c = "D" -> "d"
    [] c = "E" -> "e" [] c = "F" -> "f" [] c = "G" -> "g" [] c = "H" -> "h"
    [] c = "I" -> "i" [] c = "J" -> "j" [] c = "K" -> "k" [] c = "L" -> "l"
    [] c = "M" -> "m" [] c = "N" -> "n" [] c = "O" -> "o" [] c = "P" -> "p"
    [] c = "Q" -> "q" [] c = "R" -> "r" [] c = "S" -> "s" [] c = "T" -> "t"
    [] c = "U" -> "u" [] c = "V" -> "v" [] c = "W" -> "w" [] c = "X" -> "x"
    [] c = "Y" -> "y" [] c = "Z" -> "z" [] OTHER -> c

toLowerCase(s) == [i \in 1..Len(s) |-> LowerChar(s[i])]

\* String.prototype.replace(pattern, by) with a string pattern: the first
\* occurrence only
RECURSIVE replace(_, _, _)
replace(s, pattern, by) ==
  IF s = <<>> THEN <<>>
  ELSE IF Len(s) >= Len(pattern) /\ SubSeq(s, 1, Len(pattern)) = pattern
       THEN by \o SubSeq(s, Len(pattern) + 1, Len(s))
       ELSE <<Head(s)>> \o replace(Tail(s), pattern, by)

\* R.merge(a, b): the own properties of a, then those of b over them (shallow)
merge(a, b) == [k \in DOMAIN a \cup DOMAIN b |-> IF k \in DOMAIN b THEN b[k] ELSE a[k]]

----------------------------------------------------------------------------
(* Collaborators outside this file *)

Contexts == {"ctxNoKey", "ctxBlankKey", "ctxIssue"}

\* jiraIssueManager.getJiraIssueKey(context): undefined, "" or the key
getJiraIssueKey(context) ==
  CASE context = "ctxNoKey" -> Null
    [] context = "ctxBlankKey" -> Str(<<>>)
    [] OTHER -> Str(<<"P", "R", "O", "J", "-", "4", "2">>)

\* mssqlDatabaseManager: values determined by the context (and the index)
getDbPrimaryConnectionString(context, i) ==
  <<"dbPrimary(", context, IF i = 0 THEN "0" ELSE "1", ")">>
getDbBackupConnectionString(context, i) ==
  <<"dbBackup(", context, IF i = 0 THEN "0" ELSE "1", ")">>
getDbBackupSchema(context) == <<"dbBackupSchema(", context, ")">>

----------------------------------------------------------------------------
(* Pure helpers of the module *)

\* mutant of groupFilter: only the first listed group is compared
groupFilterFirstOnly(groups, resource_group) ==
  SelectSeq(SubSeq(groups, 1, 1), LAMBDA group : group.name = resource_group.v)

\* groups.filter((group) => group.name === azureConfig.resource_group)
groupFilter(groups, resource_group) ==
  SelectSeq(groups, LAMBDA group : group.name = resource_group.v)

\* mutant of getWebsiteName: the name is not lower-cased
getWebsiteNameAsTyped(azureConfig, jiraIssueKey) ==
  IF isNil(jiraIssueKey) \/ jiraIssueKey = Str(<<>>)
  THEN azureConfig.env_prefix \o <<"-", "q", "a">>
  ELSE azureConfig.env_prefix \o <<"-">> \o jiraIssueKey.v \o <<"-", "q", "a">>

getWebsiteName(azureConfig, jiraIssueKey) ==
  IF isNil(jiraIssueKey) \/ jiraIssueKey = Str(<<>>)
  THEN toLowerCase(azureConfig.env_prefix \o <<"-", "q", "a">>)
  ELSE toLowerCase(azureConfig.env_prefix \o <<"-">> \o jiraIssueKey.v \o <<"-", "q", "a">>)

\* mutant of getWebsiteSCMURLWithUser: the password is embedded too
getWebsiteSCMURLLeakingPassword(azureConfig, websiteName) ==
  LET user == azureConfig.scm_user \o <<":">> \o azureConfig.scm_password
  IN <<"https://">> \o user \o <<"@">> \o websiteName
       \o <<".scm.azurewebsites.net:443/">> \o websiteName

getWebsiteSCMURLWithUser(azureConfig, websiteName) ==
  LET user == azureConfig.scm_user
  IN <<"https://">> \o user \o <<"@">> \o websiteName
       \o <<".scm.azurewebsites.net:443/">> \o websiteName

getWebsiteSCMURLWithUserAndPass(azureConfig, websiteName) ==
  LET userAndPass == azureConfig.scm_user \o <<":">> \o azureConfig.scm_password
  IN <<"https://">> \o userAndPass \o <<"@">> \o websiteName
       \o <<".scm.azurewebsites.net:443/">> \o websiteName

\* mutant of randomDatabaseNumber: the range starts one too low
randomDatabaseNumberFromOne(r) == ((r * (max - min + 1)) \div RandSteps) + min - 1

\* Math.floor(Math.random() * (max - min + 1)) + min, Math.random() = r / RandSteps
randomDatabaseNumber(r) == ((r * (max - min + 1)) \div RandSteps) + min

\* the database number getRedisAppConnectionString substitutes
databaseNumber(azureConfig, websiteName, r) ==
  IF websiteName = getWebsiteName(azureConfig, Str(<<>>)) THEN 1 ELSE randomDatabaseNumber(r)

Digit(n) ==
  CASE n = 0 -> "0" [] n = 1 -> "1" [] n = 2 -> "2" [] n = 3 -> "3" [] n = 4 -> "4"
    [] n = 5 -> "5" [] n = 6 -> "6" [] n = 7 -> "7" [] n = 8 -> "8" [] n = 9 -> "9"
    [] OTHER -> "?"

getRedisAppConnectionString(azureConfig, websiteName, r) ==
  replace(azureConfig.webapp.siteConfig.appSettings[3].value,
          <<"database=", "9">>,
          <<"database=", Digit(databaseNumber(azureConfig, websiteName, r))>>)

getDeploymentUrl(azureConfig, context) ==
  LET jiraIssueKey == OrEmptyString(getJiraIssueKey(context))
      websiteName == getWebsiteName(azureConfig, jiraIssueKey)
  IN getWebsiteSCMURLWithUser(azureConfig, websiteName)

getWebappUrl(azureConfig, context) ==
  LET jiraIssueKey == OrEmptyString(getJiraIssueKey(context))
      websiteName == getWebsiteName(azureConfig, jiraIssueKey)
  IN <<"https://">> \o websiteName \o <<".azurewebsites.net">>

----------------------------------------------------------------------------
(* The configuration and the template file *)

Credentials == {"cred1", "cred2"}
SubscriptionIds == {<<"sub-1">>, <<"sub-2">>}
\* the (credentials, subscriptionId) pairs the stages are called with
Logins == {<<"cred1", <<"sub-1">>>>, <<"cred2", <<"sub-2">>>>}
Prefixes == {<<"A", "P", "P">>, <<"w", "E", "b">>}
ResourceGroups == {Null, Str(<<>>), Str(<<"rg-qa">>)}
GroupNames == {<<"rg-qa">>, <<"rg-other">>}
ApiErrors == {Err("ECONNRESET"), Err("Forbidden")}

RedisTemplate == <<"cache.redis:6380,password=k,", "database=", "9", ",ssl=True">>

\* azureConfig.webapp.siteConfig as the config file gives it: the app settings
\* always, the connection strings and other keys in some configurations
ConfigSiteConfigs == {
  [ appSettings |-> << [name |-> "cfgHost", value |-> <<"">>],
                      [name |-> "cfgBackupSchema", value |-> <<"">>],
                      [name |-> "cfgRedis", value |-> RedisTemplate] >>,
    connectionStrings |-> << [name |-> "cfgDb0", connectionString |-> <<"">>, type |-> "SQLAzure"],
                            [name |-> "cfgDb1", connectionString |-> <<"">>, type |-> "SQLAzure"] >>,
    nodeVersion |-> <<"8.9">> ],
  [ appSettings |-> << [name |-> "cfgHost", value |-> <<"">>],
                      [name |-> "cfgBackupSchema", value |-> <<"">>],
                      [name |-> "cfgRedis", value |-> RedisTemplate],
                      [name |-> "cfgExtra", value |-> <<"x">>] >>,
    alwaysOn |-> FALSE ] }

\* the configurations: every resource_group setting with either prefix, the
\* first prefix with the first siteConfig and the second with the second
Configs ==
  { [ resource_group |-> rg,
      resource_type |-> <<"Microsoft.Web/sites">>,
      env_prefix |-> ps[1],
      scm_user |-> <<"$", "deploy">>,
      scm_password |-> <<"S3", "cret">>,
      webapp |-> [ location |-> <<"Australia East">>,
                   serverFarmId |-> <<"cfgFarm">>,
                   siteConfig |-> ps[2] ] ]
    : rg \in ResourceGroups,
      ps \in { <<prefix, sc>> \in Prefixes \X ConfigSiteConfigs :
                 (prefix = <<"A", "P", "P">>) <=> ("connectionStrings" \in DOMAIN sc) } }

\* webapp.json: siteConfig.connectionStrings[0..1] and siteConfig.appSettings[0..2]
\* at fixed indices, among other fields
WebappJson ==
  [ kind |-> <<"app">>,
    location |-> <<"tplLocation">>,
    serverFarmId |-> <<"tplFarm">>,
    siteConfig |->
      [ appSettings |-> << [name |-> "tplHost", value |-> <<"tplA0">>],
                          [name |-> "tplBackupSchema", value |-> <<"tplA1">>],
                          [name |-> "tplRedis", value |-> <<"tplA2">>] >>,
        connectionStrings |-> << [name |-> "tplDb0", connectionString |-> <<"tplC0">>, type |-> "SQLAzure"],
                                [name |-> "tplDb1", connectionString |-> <<"tplC1">>, type |-> "SQLAzure"] >>,
        alwaysOn |-> TRUE,
        use32BitWorkerProcess |-> FALSE ] ]

\* a webapp.json holding the JSON value null
NullTemplate == [null |-> TRUE]

\* mutant of mergeTemplate: R.merge with its arguments swapped, the template's
\* siteConfig keys winning over the configured ones
mergeTemplateTemplateWins(azureConfig, azureEnvTemplate, context, websiteName, r) ==
  LET overlaid == merge(azureEnvTemplate,
                        [location |-> azureConfig.webapp.location,
                         serverFarmId |-> azureConfig.webapp.serverFarmId])
      siteConfig == merge(azureConfig.webapp.siteConfig, azureEnvTemplate.siteConfig)
      connectionStrings ==
        [siteConfig.connectionStrings EXCEPT
           ![1].connectionString = getDbPrimaryConnectionString(context, 0),
           ![2].connectionString = getDbPrimaryConnectionString(context, 1)]
      appSettings ==
        [siteConfig.appSettings EXCEPT
           ![1].value = websiteName \o <<".azurewebsites.net">>,
           ![2].value = getDbBackupSchema(context),
           ![3].value = getRedisAppConnectionString(azureConfig, websiteName, r)]
  IN merge(overlaid,
           [siteConfig |-> merge(siteConfig, [connectionStrings |-> connectionStrings,
                                              appSettings |-> appSettings])])

\* lines 168-176: the template after the overlay, the merge and the five
\* positional overwrites (arrays are 1-based here, 0-based in the source)
mergeTemplate(azureConfig, azureEnvTemplate, context, websiteName, r) ==
  LET overlaid == merge(azureEnvTemplate,
                        [location |-> azureConfig.webapp.location,
                         serverFarmId |-> azureConfig.webapp.serverFarmId])
      siteConfig == merge(azureEnvTemplate.siteConfig, azureConfig.webapp.siteConfig)
      connectionStrings ==
        [siteConfig.connectionStrings EXCEPT
           ![1].connectionString = getDbPrimaryConnectionString(context, 0),
           ![2].connectionString = getDbPrimaryConnectionString(context, 1)]
      appSettings ==
        [siteConfig.appSettings EXCEPT
           ![1].value = websiteName \o <<".azurewebsites.net">>,
           ![2].value = getDbBackupSchema(context),
           ![3].value = getRedisAppConnectionString(azureConfig, websiteName, r)]
  IN merge(overlaid,
           [siteConfig |-> merge(siteConfig, [connectionStrings |-> connectionStrings,
                                              appSettings |-> appSettings])])

----------------------------------------------------------------------------
(* Invocations *)

Lists(S) == UNION {[1..n -> S] : n \in 0..MaxList}

NoArgs == [context |-> "ctxNoKey", credentials |-> "cred1", subscriptionId |-> <<>>,
           websiteName |-> <<>>, updateMode |-> FALSE]

\* the environment name the pipeline passes on with a context: the one
\* getEnvironmentName derived for it
WebsiteNames(context) == {getWebsiteName(config, OrEmptyString(getJiraIssueKey(context)))}

Init ==
  /\ config \in Configs
  /\ template \in {WebappJson, NullTemplate}
  /\ stage = "none"
  /\ pc = "idle"
  /\ args = NoArgs
  /\ ext = "none"
  /\ extVal = Null
  /\ calls = <<>>
  /\ cb = <<>>
  /\ thrown = FALSE
  /\ clone = "none"
  /\ ret = <<>>
  /\ file = <<>>

\* a function of the module is entered: no invocation is in flight.  args
\* holds the arguments the function reads (authenticateAzure, getSubscriptionId,
\* validateGroupAccess and checkWebsiteExists never read their context)
Enter(name, a) ==
  /\ pc = "idle"
  /\ stage' = name
  /\ args' = a
  /\ extVal' = Null
  /\ thrown' = FALSE
  /\ clone' = "none"
  /\ UNCHANGED config

\* the function made its external call and returned to the event loop
Await(call) ==
  /\ pc' = "awaiting"
  /\ ext' = "pending"
  /\ calls' = <<call>>
  /\ cb' = <<>>
  /\ ret' = <<>>
  /\ file' = <<>>

\* the function called back synchronously, without an external call
Sync(cbArgs) ==
  /\ pc' = "done"
  /\ ext' = "none"
  /\ calls' = <<>>
  /\ cb' = <<cbArgs>>
  /\ ret' = <<>>
  /\ file' = <<>>

\* the external call of the stage settles
Settles(name, how, value) ==
  /\ stage = name
  /\ pc = "awaiting"
  /\ ext = "pending"
  /\ ext' = how
  /\ extVal' = value
  /\ UNCHANGED <<config, stage, args, ret, file>>

----------------------------------------------------------------------------
(* authenticateAzure, lines 24-39 *)

authenticateAzure(context) ==
  /\ Enter("authenticateAzure", NoArgs)
  /\ Await([op |-> "loginWithServicePrincipalSecret"])
  /\ UNCHANGED template

\* the login's node-style callback (error, credentials)
loginCallback ==
  \E error \in {Null, EmptyObj} \cup ApiErrors, credentials \in Credentials :
    /\ Settles("authenticateAzure",
               IF ~isEmpty(error) /\ ~isNil(error) THEN "rejected" ELSE "resolved",
               IF ~isEmpty(error) /\ ~isNil(error) THEN error ELSE Str(<<credentials>>))
    /\ cb' = IF ~isEmpty(error) /\ ~isNil(error)
             THEN Append(cb, <<error>>)
             ELSE Append(cb, <<Null, credentials>>)
    /\ pc' = "done"
    /\ UNCHANGED <<template, calls, thrown, clone>>

----------------------------------------------------------------------------
(* getSubscriptionId, lines 48-61 *)

SubscriptionEntries == [subscriptionId : {Null, Str(<<>>)} \cup {Str(id) : id \in SubscriptionIds}]

getSubscriptionId(context, credentials) ==
  /\ Enter("getSubscriptionId", [NoArgs EXCEPT !.credentials = credentials])
  /\ Await([op |-> "subscriptions.list", credentials |-> credentials])
  /\ UNCHANGED template

\* the .then handler of subscriptions.list(): res[0] of an empty list is
\* undefined and reading its subscriptionId throws inside the handler
subscriptionsListed ==
  \E res \in Lists(SubscriptionEntries) :
    /\ Settles("getSubscriptionId", "resolved", Arr(res))
    /\ pc' = "done"
    /\ IF res = <<>>
       THEN thrown' = TRUE /\ cb' = cb
       ELSE LET subscriptionId == res[1].subscriptionId
            IN /\ thrown' = FALSE
               /\ cb' = IF isNil(subscriptionId) \/ isEmpty(subscriptionId)
                        THEN Append(cb, <<Str(<<"No subscriptions available for this user.">>)>>)
                        ELSE Append(cb, <<Null, args.credentials, subscriptionId.v>>)
    /\ UNCHANGED <<template, calls, clone>>

\* subscriptions.list() rejects: .then was given no rejection handler
subscriptionsListFailed ==
  \E err \in ApiErrors :
    /\ Settles("getSubscriptionId", "rejected", err)
    /\ pc' = "done"
    /\ UNCHANGED <<template, calls, cb, thrown, clone>>

----------------------------------------------------------------------------
(* validateGroupAccess, lines 73-99 *)

\* mutant of noResourceGroup: the empty string is not checked for
noResourceGroupNilOnly(azureConfig) == isNil(azureConfig.resource_group)

\* line 77
noResourceGroup(azureConfig) ==
  isNil(azureConfig.resource_group) \/ isEmpty(azureConfig.resource_group)

validateGroupAccess(context, credentials, subscriptionId) ==
  /\ Enter("validateGroupAccess",
           [NoArgs EXCEPT !.credentials = credentials, !.subscriptionId = subscriptionId])
  /\ IF noResourceGroup(config)
     THEN Sync(<<Str(<<"No resource_group has been specified in your config file.">>)>>)
     ELSE Await([op |-> "resourceGroups.list", credentials |-> credentials,
                 subscriptionId |-> subscriptionId])
  /\ UNCHANGED template

\* lines 83-97: the arguments the .then handler passes to the callback
groupsHandler(azureConfig, groups, credentials, subscriptionId) ==
  IF isNil(groups) \/ isEmpty(groups)
  THEN <<Str(<<"No groups available for this user.">>)>>
  ELSE LET groupId == Arr(groupFilter(groups.v, azureConfig.resource_group))
       IN IF isNil(groupId) \/ isEmpty(groupId)
          THEN <<Str(<<"This user doesn't have access to the specified group.">>)>>
          ELSE <<Null, credentials, subscriptionId>>

resourceGroupsListed ==
  \E groups \in {Null} \cup {Arr(g) : g \in Lists([name : GroupNames])} :
    /\ Settles("validateGroupAccess", "resolved", groups)
    /\ pc' = "done"
    /\ cb' = Append(cb, groupsHandler(config, groups, args.credentials, args.subscriptionId))
    /\ UNCHANGED <<template, calls, thrown, clone>>

\* resourceGroups.list() rejects: .then was given no rejection handler
resourceGroupsListFailed ==
  \E err \in ApiErrors :
    /\ Settles("validateGroupAccess", "rejected", err)
    /\ pc' = "done"
    /\ UNCHANGED <<template, calls, cb, thrown, clone>>

----------------------------------------------------------------------------
(* getEnvironmentName, lines 109-114 *)

getEnvironmentName(context, credentials, subscriptionId) ==
  /\ Enter("getEnvironmentName",
           [NoArgs EXCEPT !.context = context, !.credentials = credentials,
                          !.subscriptionId = subscriptionId])
  /\ LET jiraIssueKey == OrEmptyString(getJiraIssueKey(context))
         websiteName == getWebsiteName(config, jiraIssueKey)
     IN Sync(<<Null, credentials, subscriptionId, websiteName>>)
  /\ UNCHANGED template

----------------------------------------------------------------------------
(* checkWebsiteExists, lines 125-136 *)

checkWebsiteExists(context, credentials, subscriptionId, websiteName) ==
  /\ Enter("checkWebsiteExists",
           [NoArgs EXCEPT !.credentials = credentials, !.subscriptionId = subscriptionId,
                          !.websiteName = websiteName])
  /\ Await([op |-> "checkNameAvailability", name |-> websiteName,
            type |-> config.resource_type])
  /\ UNCHANGED template

nameAvailabilityChecked ==
  \E nameAvailable \in BOOLEAN :
    /\ Settles("checkWebsiteExists", "resolved", [t |-> "res", nameAvailable |-> nameAvailable])
    /\ pc' = "done"
    /\ cb' = Append(cb, <<Null, args.credentials, args.subscriptionId, args.websiteName,
                          ~nameAvailable>>)
    /\ UNCHANGED <<template, calls, thrown, clone>>

nameAvailabilityFailed ==
  \E err \in ApiErrors :
    /\ Settles("checkWebsiteExists", "rejected", err)
    /\ pc' = "done"
    /\ cb' = Append(cb, <<err>>)
    /\ UNCHANGED <<template, calls, thrown, clone>>

----------------------------------------------------------------------------
(* createEnvironment, updateEnvironment, createOrUpdateEnvironment, lines 147-200 *)

createOrUpdateEnvironment(context, credentials, subscriptionId, websiteName, updateMode) ==
  \E r \in 0..(RandSteps - 1) :
    /\ Enter(IF updateMode THEN "updateEnvironment" ELSE "createEnvironment",
             [context |-> context, credentials |-> credentials,
              subscriptionId |-> subscriptionId, websiteName |-> websiteName,
              updateMode |-> updateMode])
    /\ IF template = NullTemplate
       THEN /\ Sync(<<Str(<<"Invalid azure environment">>), websiteName>>)
            /\ UNCHANGED template
       ELSE LET azureEnvTemplate == mergeTemplate(config, template, context, websiteName, r)
            IN /\ template' = azureEnvTemplate
               /\ Await([op |-> "webApps.createOrUpdate",
                         resource_group |-> config.resource_group,
                         name |-> websiteName,
                         payload |-> azureEnvTemplate,
                         loaded |-> template])

createEnvironment(context, credentials, subscriptionId, websiteName) ==
  createOrUpdateEnvironment(context, credentials, subscriptionId, websiteName, FALSE)

updateEnvironment(context, credentials, subscriptionId, websiteName) ==
  createOrUpdateEnvironment(context, credentials, subscriptionId, websiteName, TRUE)

\* mutant of clones: updateMode is ignored
clonesAlways(updateMode) == TRUE

\* lines 181-184: whether the success handler goes on to clone
clones(updateMode) == ~updateMode

\* the success handler of webApps.createOrUpdate, lines 180-195
provisioned ==
  /\ stage \in {"createEnvironment", "updateEnvironment"}
  /\ Settles(stage, "resolved", Null)
  /\ IF clones(args.updateMode)
     THEN /\ pc' = "cloning"
          /\ clone' = "running"
          /\ calls' = Append(calls,
               [op |-> "cloneFromGitNoLogging",
                repositoryPath |-> getWebsiteSCMURLWithUserAndPass(config, args.websiteName),
                target |-> <<"Temp/">> \o args.websiteName])
          /\ cb' = cb
     ELSE /\ pc' = "done"
          /\ cb' = Append(cb, <<Null, args.websiteName>>)
          /\ UNCHANGED <<calls, clone>>
  /\ UNCHANGED <<template, thrown>>

\* cloneCb, lines 191-193: the clone helper reports completion, not outcome
cloneCb ==
  \E outcome \in {"ok", "failed"} :
    /\ pc = "cloning"
    /\ clone = "running"
    /\ clone' = outcome
    /\ pc' = "done"
    /\ cb' = Append(cb, <<Null, args.websiteName>>)
    /\ UNCHANGED <<config, template, stage, args, ext, extVal, calls, thrown, ret, file>>

\* mutant of provisioningFailed: the error is passed on without the name
provisioningFailedWithoutName ==
  \E err \in ApiErrors :
    /\ stage \in {"createEnvironment", "updateEnvironment"}
    /\ Settles(stage, "rejected", err)
    /\ pc' = "done"
    /\ cb' = Append(cb, <<err>>)
    /\ UNCHANGED <<template, calls, thrown, clone>>

\* the rejection handler of webApps.createOrUpdate, lines 196-198
provisioningFailed ==
  \E err \in ApiErrors :
    /\ stage \in {"createEnvironment", "updateEnvironment"}
    /\ Settles(stage, "rejected", err)
    /\ pc' = "done"
    /\ cb' = Append(cb, <<err, args.websiteName>>)
    /\ UNCHANGED <<template, calls, thrown, clone>>

----------------------------------------------------------------------------
(* deleteEnvironment, lines 210-224 *)

deleteEnvironment(context, credentials, subscriptionId, websiteName) ==
  /\ Enter("deleteEnvironment",
           [NoArgs EXCEPT !.context = context, !.credentials = credentials,
                          !.subscriptionId = subscriptionId, !.websiteName = websiteName])
  /\ Await([op |-> "webApps.deleteMethod", resource_group |-> config.resource_group,
            name |-> websiteName, deleteMetrics |-> TRUE])
  /\ UNCHANGED template

\* the schema-delete collaborator is handed the context and the callback
schemaDelete(context) == [op |-> "deleteAllWebappDatabaseSchemaAndData", context |-> context]

\* the success handler of webApps.deleteMethod, lines 217-219
deleted ==
  /\ Settles("deleteEnvironment", "resolved", Null)
  /\ pc' = "schema"
  /\ calls' = Append(calls, schemaDelete(args.context))
  /\ UNCHANGED <<template, cb, thrown, clone>>

\* mutant of deleteFailed: the schema is deleted after a failed delete too
deleteFailedThenSchemaDelete ==
  \E err \in ApiErrors :
    /\ Settles("deleteEnvironment", "rejected", err)
    /\ pc' = "schema"
    /\ calls' = Append(calls, [op |-> "deleteAllWebappDatabaseSchemaAndData",
                               context |-> args.context])
    /\ UNCHANGED <<template, cb, thrown, clone>>

\* the rejection handler of webApps.deleteMethod, lines 220-222
deleteFailed ==
  \E err \in ApiErrors :
    /\ Settles("deleteEnvironment", "rejected", err)
    /\ pc' = "done"
    /\ cb' = Append(cb, <<err>>)
    /\ UNCHANGED <<template, calls, thrown, clone>>

\* mssqlDatabaseManager.deleteAllWebappDatabaseSchemaAndData completes and
\* invokes the callback it was handed
schemaDeleted ==
  \E err \in {Null} \cup ApiErrors :
    /\ pc = "schema"
    /\ pc' = "done"
    /\ cb' = Append(cb, <<err>>)
    /\ UNCHANGED <<config, template, stage, args, ext, extVal, calls, thrown, clone, ret, file>>

----------------------------------------------------------------------------
(* getDeploymentUrl, getWebappUrl, createAzureWebAppVariablesFile, lines 231-289 *)

\* a synchronous getter returns
Returns(value) ==
  /\ pc' = "done"
  /\ ext' = "none"
  /\ calls' = <<>>
  /\ cb' = <<>>
  /\ ret' = value
  /\ file' = <<>>
  /\ UNCHANGED template

callGetDeploymentUrl(context) ==
  /\ Enter("getDeploymentUrl", [NoArgs EXCEPT !.context = context])
  /\ Returns(getDeploymentUrl(config, context))

callGetWebappUrl(context) ==
  /\ Enter("getWebappUrl", [NoArgs EXCEPT !.context = context])
  /\ Returns(getWebappUrl(config, context))

\* lines 278-285: the lines of the file, without their "\n"
variablesFile(azureConfig, context) ==
  LET deploymentUrl == getDeploymentUrl(azureConfig, context)
      webappUrl == getWebappUrl(azureConfig, context)
      jiraIssueKey == getJiraIssueKey(context)
  IN << <<"deploymentUrl=">> \o deploymentUrl \o <<".git">>,
        <<"webappUrl=">> \o webappUrl,
        <<"webappPort=443">>,
        <<"jiraIssueKey=">> \o ToStr(jiraIssueKey),
        <<"webappDbPrimaryConnString0=">> \o getDbPrimaryConnectionString(context, 0),
        <<"webappDbPrimaryConnString1=">> \o getDbPrimaryConnectionString(context, 1),
        <<"webappDbBackupConnString0=">> \o getDbBackupConnectionString(context, 0),
        <<"webappDbBackupConnString1=">> \o getDbBackupConnectionString(context, 1) >>

createAzureWebAppVariablesFile(context) ==
  /\ Enter("createAzureWebAppVariablesFile", [NoArgs EXCEPT !.context = context])
  /\ pc' = "writing"
  /\ ext' = "pending"
  /\ calls' = << [op |-> "fs.writeFile", data |-> variablesFile(config, context)] >>
  /\ cb' = <<>>
  /\ ret' = <<>>
  /\ file' = <<>>
  /\ UNCHANGED template

\* fs.writeFile completes and invokes the callback it was handed
fileWritten ==
  \E err \in {Null} \cup ApiErrors :
    /\ stage = "createAzureWebAppVariablesFile"
    /\ pc = "writing"
    /\ pc' = "done"
    /\ ext' = IF err = Null THEN "resolved" ELSE "rejected"
    /\ extVal' = err
    /\ file' = IF err = Null THEN calls[1].data ELSE file
    /\ cb' = Append(cb, <<err>>)
    /\ UNCHANGED <<config, template, stage, args, calls, thrown, clone, ret>>

----------------------------------------------------------------------------
(* module.exports, lines 308-320: once an invocation has nothing left to   *)
(* run, the functions can be called again                                  *)

moduleExports ==
  /\ pc = "done"
  /\ pc' = "idle"
  /\ stage' = "none"
  /\ args' = NoArgs
  /\ ext' = "none"
  /\ extVal' = Null
  /\ calls' = <<>>
  /\ cb' = <<>>
  /\ thrown' = FALSE
  /\ clone' = "none"
  /\ ret' = <<>>
  /\ file' = <<>>
  /\ UNCHANGED <<config, template>>

----------------------------------------------------------------------------

Next ==
  \/ \E context \in Contexts : authenticateAzure(context)
  \/ loginCallback
  \/ \E context \in Contexts, credentials \in Credentials :
       getSubscriptionId(context, credentials)
  \/ subscriptionsListed
  \/ subscriptionsListFailed
  \/ \E context \in Contexts, login \in Logins :
       validateGroupAccess(context, login[1], login[2])
  \/ resourceGroupsListed
  \/ resourceGroupsListFailed
  \/ \E context \in Contexts, login \in Logins :
       getEnvironmentName(context, login[1], login[2])
  \/ \E context \in Contexts, login \in Logins : \E websiteName \in WebsiteNames(context) :
       checkWebsiteExists(context, login[1], login[2], websiteName)
  \/ nameAvailabilityChecked
  \/ nameAvailabilityFailed
  \/ \E context \in Contexts, login \in Logins : \E websiteName \in WebsiteNames(context) :
       createEnvironment(context, login[1], login[2], websiteName)
  \/ \E context \in Contexts, login \in Logins : \E websiteName \in WebsiteNames(context) :
       updateEnvironment(context, login[1], login[2], websiteName)
  \/ provisioned
  \/ cloneCb
  \/ provisioningFailed
  \/ \E context \in Contexts, login \in Logins : \E websiteName \in WebsiteNames(context) :
       deleteEnvironment(context, login[1], login[2], websiteName)
  \/ deleted
  \/ deleteFailed
  \/ schemaDeleted
  \/ \E context \in Contexts : callGetDeploymentUrl(context)
  \/ \E context \in Contexts : callGetWebappUrl(context)
  \/ \E context \in Contexts : createAzureWebAppVariablesFile(context)
  \/ fileWritten
  \/ moduleExports

Spec == Init /\ [][Next]_vars

----------------------------------------------------------------------------
(* Properties *)

Count(seq, op) == Len(SelectSeq(seq, LAMBDA c : c.op = op))

\* C1: deleteEnvironment hands the context and the callback to the
\* schema-delete collaborator exactly once when the infrastructure delete has
\* succeeded, and not before; when the delete fails the collaborator is never
\* invoked and the callback receives the error the delete failed with.
C1_SchemaDeleteOnlyAfterDelete ==
  stage = "deleteEnvironment" =>
    /\ calls[1].op = "webApps.deleteMethod"
    /\ ext = "pending" =>
         /\ Count(calls, "deleteAllWebappDatabaseSchemaAndData") = 0
         /\ cb = <<>>
    /\ ext = "resolved" =>
         /\ Count(calls, "deleteAllWebappDatabaseSchemaAndData") = 1
         /\ Len(calls) = 2
         /\ calls[2].op = "deleteAllWebappDatabaseSchemaAndData"
         /\ calls[2].context = args.context
    /\ ext = "rejected" =>
         /\ Count(calls, "deleteAllWebappDatabaseSchemaAndData") = 0
         /\ pc = "done"
         /\ cb = << <<extVal>> >>

\* C1 witness: a delete that succeeded, on a context other than the default one
C1_Witness ==
  /\ stage = "deleteEnvironment"
  /\ ext = "resolved"
  /\ args.context = "ctxIssue"
  /\ Count(calls, "deleteAllWebappDatabaseSchemaAndData") = 1

\* C2: getSubscriptionId calls back with the "No subscriptions available"
\* error, and nothing else, when the listing returns an empty list, and with
\* (no error, the credentials, the first entry's subscription id) when the
\* list is not empty (the first entry carrying an id).
C2_SubscriptionResolution ==
  (stage = "getSubscriptionId" /\ ext = "resolved") =>
    IF extVal.v = <<>>
    THEN cb = << <<Str(<<"No subscriptions available for this user.">>)>> >>
    ELSE (~isNil(extVal.v[1].subscriptionId) /\ ~isEmpty(extVal.v[1].subscriptionId)) =>
           cb = << <<Null, args.credentials, extVal.v[1].subscriptionId.v>> >>

\* the stages of the pipeline
Stages == {"authenticateAzure", "getSubscriptionId", "validateGroupAccess",
           "getEnvironmentName", "checkWebsiteExists", "createEnvironment",
           "updateEnvironment", "deleteEnvironment"}

\* C3: a stage whose external call has completed, and which has nothing left
\* to run, has invoked its callback exactly once; no stage ever invokes it twice.
C3_CallerResumedOnce ==
  stage \in Stages =>
    /\ Len(cb) <= 1
    /\ (ext \in {"resolved", "rejected"} /\ pc = "done") => Len(cb) = 1

\* the provisioning call of a create or update that got as far as making it
Provisioning == stage \in {"createEnvironment", "updateEnvironment"} /\ ext # "none"

\* the five positions createOrUpdateEnvironment overwrites: for the array
\* `key`, the field and the value written at (1-based) index i
Overwritten(key, i, context, websiteName, redis) ==
  CASE key = "connectionStrings" /\ i = 1 ->
         [connectionString |-> getDbPrimaryConnectionString(context, 0)]
    [] key = "connectionStrings" /\ i = 2 ->
         [connectionString |-> getDbPrimaryConnectionString(context, 1)]
    [] key = "appSettings" /\ i = 1 -> [value |-> websiteName \o <<".azurewebsites.net">>]
    [] key = "appSettings" /\ i = 2 -> [value |-> getDbBackupSchema(context)]
    [] key = "appSettings" /\ i = 3 -> [value |-> redis]
    [] OTHER -> <<>>

\* the database index of a Redis connection string: what follows "database="
RedisIndex(value) == value[(CHOOSE i \in 1..Len(value) : value[i] = "database=") + 1]

\* the configured Redis connection string with the database index the payload
\* carries (C8 is about which index that is)
RedisAsConfigured(payload) ==
  LET value == config.webapp.siteConfig.appSettings[3].value
  IN [value EXCEPT ![(CHOOSE i \in 1..Len(value) : value[i] = "database=") + 1] =
        RedisIndex(payload.siteConfig.appSettings[3].value)]

\* array `key` of the payload is `base` with the five positions overwritten
ArrayOverwritten(key, payloadArray, base, context, websiteName, redis) ==
  /\ Len(payloadArray) = Len(base)
  /\ \A i \in 1..Len(base) :
       LET o == Overwritten(key, i, context, websiteName, redis)
       IN /\ DOMAIN payloadArray[i] = DOMAIN base[i]
          /\ \A f \in DOMAIN base[i] :
               payloadArray[i][f] = IF f \in DOMAIN o THEN o[f] ELSE base[i][f]

\* C4 as stated: the payload is the loaded template with the five positions
\* overwritten and every other field as loaded.
C4_OnlyFivePositionsChanged ==
  Provisioning =>
    LET payload == calls[1].payload
        loaded == calls[1].loaded
    IN /\ DOMAIN payload = DOMAIN loaded
       /\ \A k \in DOMAIN loaded \ {"siteConfig"} : payload[k] = loaded[k]
       /\ DOMAIN payload.siteConfig = DOMAIN loaded.siteConfig
       /\ \A k \in DOMAIN loaded.siteConfig \ {"connectionStrings", "appSettings"} :
            payload.siteConfig[k] = loaded.siteConfig[k]
       /\ \A k \in {"connectionStrings", "appSettings"} :
            ArrayOverwritten(k, payload.siteConfig[k], loaded.siteConfig[k],
                             args.context, args.websiteName, RedisAsConfigured(payload))

\* C4 amended: location and serverFarmId are the configured ones; every key of
\* the configured siteConfig replaces the template's (the connectionStrings
\* and appSettings arrays included); the five positions of the resulting
\* arrays are overwritten; every other field is as loaded.
C4_FivePositionsOverMergedConfig ==
  Provisioning =>
    LET payload == calls[1].payload
        loaded == calls[1].loaded
        configured == config.webapp.siteConfig
        Base(k) == IF k \in DOMAIN configured THEN configured[k] ELSE loaded.siteConfig[k]
    IN /\ DOMAIN payload = DOMAIN loaded \cup {"location", "serverFarmId"}
       /\ payload.location = config.webapp.location
       /\ payload.serverFarmId = config.webapp.serverFarmId
       /\ \A k \in DOMAIN loaded \ {"siteConfig", "location", "serverFarmId"} :
            payload[k] = loaded[k]
       /\ DOMAIN payload.siteConfig = DOMAIN loaded.siteConfig \cup DOMAIN configured
       /\ \A k \in DOMAIN payload.siteConfig \ {"connectionStrings", "appSettings"} :
            payload.siteConfig[k] = Base(k)
       /\ \A k \in {"connectionStrings", "appSettings"} :
            ArrayOverwritten(k, payload.siteConfig[k], Base(k),
                             args.context, args.websiteName, RedisAsConfigured(payload))

\* C4 witness: a create from the template as the file holds it, with a
\* configuration that carries its own connection strings
C4_Witness ==
  /\ stage = "createEnvironment"
  /\ ext = "pending"
  /\ calls[1].loaded = WebappJson
  /\ "connectionStrings" \in DOMAIN config.webapp.siteConfig
  /\ args.context = "ctxIssue"

\* C5: with resource_group unset or empty, validateGroupAccess calls back with
\* the "No resource_group has been specified" error whatever the credentials
\* and subscription id, never lists the resource groups and never succeeds.
C5_NoResourceGroupIsConfigError ==
  (stage = "validateGroupAccess" /\ config.resource_group \in {Null, Str(<<>>)}) =>
    /\ cb = << <<Str(<<"No resource_group has been specified in your config file.">>)>> >>
    /\ calls = <<>>
    /\ ext = "none"
    /\ pc = "done"

\* C5 witness: the empty resource_group, called with the second login
C5_Witness ==
  /\ stage = "validateGroupAccess"
  /\ config.resource_group = Str(<<>>)
  /\ args.credentials = "cred2"
  /\ cb # <<>>

\* C6: with a resource_group configured and a non-empty group list returned,
\* validateGroupAccess calls back with the access error when no group of the
\* list has the configured name, and with (no error, the credentials and
\* subscription id passed in) when one has.
C6_GroupAccess ==
  (/\ stage = "validateGroupAccess"
   /\ config.resource_group \notin {Null, Str(<<>>)}
   /\ ext = "resolved"
   /\ extVal # Null
   /\ extVal.v # <<>>) =>
    IF \E i \in 1..Len(extVal.v) : extVal.v[i].name = config.resource_group.v
    THEN cb = << <<Null, args.credentials, args.subscriptionId>> >>
    ELSE cb = << <<Str(<<"This user doesn't have access to the specified group.">>)>> >>

\* C6 witness: the configured group is the second of two, second login
C6_Witness ==
  /\ stage = "validateGroupAccess"
  /\ ext = "resolved"
  /\ extVal = Arr(<<[name |-> <<"rg-other">>], [name |-> <<"rg-qa">>]>>)
  /\ cb = << <<Null, "cred2", <<"sub-2">>>> >>

UpperLetters == <<"A", "B", "C", "D", "E", "F", "G", "H", "I", "J", "K", "L", "M",
                  "N", "O", "P", "Q", "R", "S", "T", "U", "V", "W", "X", "Y", "Z">>
LowerLetters == <<"a", "b", "c", "d", "e", "f", "g", "h", "i", "j", "k", "l", "m",
                  "n", "o", "p", "q", "r", "s", "t", "u", "v", "w", "x", "y", "z">>

\* lowercase(s), by the position of each letter in the alphabet
Lowercase(s) ==
  [i \in 1..Len(s) |->
     IF \E n \in 1..26 : UpperLetters[n] = s[i]
     THEN LowerLetters[CHOOSE n \in 1..26 : UpperLetters[n] = s[i]]
     ELSE s[i]]

\* the name the specification gives for prefix P and issue key K (K absent: Null)
EnvironmentName(P, K) ==
  IF K = Null \/ K.v = <<>>
  THEN Lowercase(P \o <<"-", "q", "a">>)
  ELSE Lowercase(P \o <<"-">> \o K.v \o <<"-", "q", "a">>)

\* C7: getWebsiteName gives lowercase(P-K-qa) for a non-empty key and
\* lowercase(P-qa) for an empty or absent one, and the name getEnvironmentName
\* passes on is that function of the configured prefix and the context's key
\* alone.
C7_EnvironmentName ==
  /\ \A c \in Contexts :
       getWebsiteName(config, getJiraIssueKey(c)) = EnvironmentName(config.env_prefix, getJiraIssueKey(c))
  /\ (stage = "getEnvironmentName" /\ pc = "done") =>
       cb = << <<Null, args.credentials, args.subscriptionId,
                 EnvironmentName(config.env_prefix, getJiraIssueKey(args.context))>> >>

\* C7 witness: prefix APP and key PROJ-42 gave app-proj-42-qa
C7_Witness ==
  /\ stage = "getEnvironmentName"
  /\ pc = "done"
  /\ config.env_prefix = <<"A", "P", "P">>
  /\ cb[1][4] = <<"a", "p", "p", "-", "p", "r", "o", "j", "-", "4", "2", "-", "q", "a">>

\* C8: the Redis connection string in appSettings[2] of the payload has
\* database index 1 when the environment name is the default name, and an
\* index in 2..9 for any other name.
C8_RedisDatabaseIndex ==
  Provisioning =>
    LET index == RedisIndex(calls[1].payload.siteConfig.appSettings[3].value)
    IN IF calls[1].name = EnvironmentName(config.env_prefix, Null)
       THEN index = "1"
       ELSE index \in {"2", "3", "4", "5", "6", "7", "8", "9"}

\* C8 witness: a non-default environment drew the largest index
C8_Witness ==
  /\ Provisioning
  /\ calls[1].name # EnvironmentName(config.env_prefix, Null)
  /\ RedisIndex(calls[1].payload.siteConfig.appSettings[3].value) = "9"

\* the URLs the specification gives for the environment name N
WebappUrl(N) == <<"https://">> \o N \o <<".azurewebsites.net">>
DeploymentUrl(N) ==
  <<"https://">> \o config.scm_user \o <<"@">> \o N
    \o <<".scm.azurewebsites.net:443/">> \o N \o <<".git">>

\* s occurs in url
Embeds(url, s) == \E i \in 1..Len(url) : i + Len(s) - 1 <= Len(url) /\ SubSeq(url, i, i + Len(s) - 1) = s

\* the environment name derived for the invocation's context
DerivedName == EnvironmentName(config.env_prefix, getJiraIssueKey(args.context))

\* C9 as stated: getWebappUrl returns https://N.azurewebsites.net and
\* getDeploymentUrl returns https://scm_user@N.scm.azurewebsites.net:443/N.git,
\* without the password.
C9_UrlsAsStated ==
  /\ (stage = "getWebappUrl" /\ pc = "done") => ret = WebappUrl(DerivedName)
  /\ (stage = "getDeploymentUrl" /\ pc = "done") =>
       /\ ret = DeploymentUrl(DerivedName)
       /\ ~Embeds(ret, config.scm_password)

\* C9 amended: getDeploymentUrl returns the URL without the ".git" suffix; the
\* suffix is added where createAzureWebAppVariablesFile writes the
\* deploymentUrl line, which then is the URL as stated.  Neither embeds the
\* password.
C9_UrlsWithGitSuffixInFile ==
  /\ (stage = "getWebappUrl" /\ pc = "done") => ret = WebappUrl(DerivedName)
  /\ (stage = "getDeploymentUrl" /\ pc = "done") =>
       /\ ret \o <<".git">> = DeploymentUrl(DerivedName)
       /\ ~Embeds(ret, config.scm_password)
  /\ (stage = "createAzureWebAppVariablesFile" /\ file # <<>>) =>
       /\ file[1] = <<"deploymentUrl=">> \o DeploymentUrl(DerivedName)
       /\ file[2] = <<"webappUrl=">> \o WebappUrl(DerivedName)
       /\ \A i \in 1..2 : ~Embeds(file[i], config.scm_password)

\* C9 witness: prefix APP, key PROJ-42
C9_Witness ==
  /\ stage = "getDeploymentUrl"
  /\ pc = "done"
  /\ ret = <<"https://", "$", "deploy", "@",
             "a", "p", "p", "-", "p", "r", "o", "j", "-", "4", "2", "-", "q", "a",
             ".scm.azurewebsites.net:443/",
             "a", "p", "p", "-", "p", "r", "o", "j", "-", "4", "2", "-", "q", "a">>

\* C10: createEnvironment starts the clone exactly once, when the provisioning
\* call has succeeded, and calls back with (no error, name) when the clone has
\* completed, whatever its outcome, and not before; updateEnvironment never
\* starts the clone and calls back with (no error, name) as soon as the
\* provisioning call has succeeded.
C10_CloneOnlyOnCreate ==
  /\ (stage = "createEnvironment" /\ ext # "none") =>
       /\ Count(calls, "cloneFromGitNoLogging") = (IF ext = "resolved" THEN 1 ELSE 0)
       /\ (clone # "none") <=> (ext = "resolved")
       /\ ext = "resolved" =>
            /\ calls[1].op = "webApps.createOrUpdate"
            /\ calls[2].op = "cloneFromGitNoLogging"
            /\ cb = IF clone = "running" THEN <<>> ELSE << <<Null, args.websiteName>> >>
            /\ (pc = "done") <=> (clone \in {"ok", "failed"})
  /\ (stage = "updateEnvironment" /\ ext # "none") =>
       /\ Count(calls, "cloneFromGitNoLogging") = 0
       /\ clone = "none"
       /\ ext = "resolved" => (cb = << <<Null, args.websiteName>> >> /\ pc = "done")

\* C10 witness: a create called back after a clone that failed
C10_Witness ==
  /\ stage = "createEnvironment"
  /\ clone = "failed"
  /\ cb = << <<Null, args.websiteName>> >>

\* C11: when the provisioning call of createEnvironment or updateEnvironment
\* fails, the callback is invoked once with the error the call failed with
\* and the environment name, nothing is left to run, and the clone is never
\* started.
C11_ProvisioningErrorWithName ==
  (stage \in {"createEnvironment", "updateEnvironment"} /\ ext = "rejected") =>
    /\ cb = << <<extVal, args.websiteName>> >>
    /\ extVal \in ApiErrors
    /\ pc = "done"
    /\ clone = "none"
    /\ Count(calls, "cloneFromGitNoLogging") = 0
    /\ Len(calls) = 1

\* C11 witness: a create (the mode that clones on success) of a non-default
\* environment failed with the second error
C11_Witness ==
  /\ stage = "createEnvironment"
  /\ ext = "rejected"
  /\ extVal = Err("Forbidden")
  /\ args.context = "ctxIssue"
  /\ cb # <<>>

\* C11 witness in update mode, kept for the record of both modes
C11_WitnessUpdate ==
  /\ stage = "updateEnvironment"
  /\ ext = "rejected"
  /\ cb # <<>>

====
